---- MODULE Spec2Model ----
(***************************************************************************)
(* A model of the KDT Placer placement engine (footprint_placer.py).       *)
(*                                                                         *)
(* Numbers.  Python floats are modelled in fixed point: a length in mm is  *)
(* an integer count of 1/MmDen mm, a pixel length is an integer count of   *)
(* pixels, an angle is an integer count of degrees.  The inputs are chosen *)
(* so that every quotient the code forms is exact in that resolution.      *)
(* Angles are multiples of 90 degrees, where cos and sin are -1, 0 or 1    *)
(* (the 1e-16 residue of math.cos(math.radians(90)) is below resolution).  *)
(*                                                                         *)
(* Strings are TLA+ strings; str.replace and the "in" test are computed    *)
(* character by character.                                                 *)
(*                                                                         *)
(* The host (KiCad's pcbnew) is modelled by what its FOOTPRINT object does *)
(* on SetPosition, SetOrientation and Flip, and by a fault plan that names *)
(* the host call, if any, that raises.                                     *)
(***************************************************************************)
EXTENDS Integers, Sequences, FiniteSets, TLC

(***************************************************************************)
(* Bounds of the model and constants of the program.                       *)
(***************************************************************************)
MaxKeys == 2
MaxAdditional == 1
MmDen == 1000
NmPerMm == 1000000
DefaultStepMm == 19050
DefaultRefUnitPx == 60

B_Cu == "B.Cu"
F_Cu == "F.Cu"
NoTarget == [absent |-> TRUE]
NoConfig == [none |-> TRUE]
NoFault == [ref |-> "", op |-> "", text |-> ""]

(***************************************************************************)
(* Arithmetic helpers.                                                     *)
(***************************************************************************)
Abs(n) == IF n < 0 THEN -n ELSE n

\* Python int(): truncation towards zero of num / den, den > 0.
TruncDiv(num, den) == IF num >= 0 THEN num \div den ELSE -((-num) \div den)

CosDeg(a) ==
    CASE a % 360 = 0 -> 1
      [] a % 360 = 90 -> 0
      [] a % 360 = 180 -> -1
      [] a % 360 = 270 -> 0

SinDeg(a) ==
    CASE a % 360 = 0 -> 0
      [] a % 360 = 90 -> 1
      [] a % 360 = 180 -> 0
      [] a % 360 = 270 -> -1

\* rotate_offset(x_offset, y_offset, angle_deg)
rotate_offset(x_offset, y_offset, angle_deg) ==
    LET cos_a == CosDeg(angle_deg)
        sin_a == SinDeg(angle_deg)
    IN  << x_offset * cos_a - y_offset * sin_a,
           x_offset * sin_a + y_offset * cos_a >>

\* mm_to_nm(mm) = int(mm * 1_000_000), mm in 1/MmDen mm: the product is
\* truncated towards zero (whole and fractional mm are converted apart to
\* keep the intermediate product small).
mm_to_nm(mm) ==
    LET a == Abs(mm)
        n == (a \div MmDen) * NmPerMm + ((a % MmDen) * NmPerMm) \div MmDen
    IN  IF mm < 0 THEN -n ELSE n

(***************************************************************************)
(* Strings.                                                                *)
(***************************************************************************)
\* Python "sub in s".
Contains(s, sub) ==
    \E i \in 1..(Len(s) - Len(sub) + 1) : SubSeq(s, i, i + Len(sub) - 1) = sub

\* Python s.replace(old, new): every non-overlapping occurrence, left to right.
RECURSIVE Replace(_, _, _)
Replace(s, old, new) ==
    IF Len(s) < Len(old) THEN s
    ELSE IF SubSeq(s, 1, Len(old)) = old
         THEN new \o Replace(SubSeq(s, Len(old) + 1, Len(s)), old, new)
         ELSE SubSeq(s, 1, 1) \o Replace(SubSeq(s, 2, Len(s)), old, new)

TwoDigits(n) == IF n < 10 THEN "0" \o ToString(n) ELSE ToString(n)

\* Python f"{mm:.2f}" of a length in 1/MmDen mm.  (The inputs avoid exact
\* ties, whose rounding depends on the binary double.)
Fmt2(mm) ==
    LET a == Abs(mm)
        per == MmDen \div 100
        h0 == a \div per
        r == a % per
        h == IF 2 * r > per \/ (2 * r = per /\ h0 % 2 = 1) THEN h0 + 1 ELSE h0
    IN  (IF mm < 0 THEN "-" ELSE "") \o ToString(h \div 100) \o "." \o TwoDigits(h % 100)

\* Python str() of a float holding a whole number of degrees.
FmtDeg(deg) == ToString(deg) \o ".0"

(***************************************************************************)
(* Inputs of place_keys: the sets the initial state draws them from.       *)
(***************************************************************************)
\* KeyData as the placer reads it (label, center_x, center_y, rotation).
KeyPool ==
    { [label |-> "A1", center_x |-> 30, center_y |-> 30, rotation |-> 0],
      [label |-> "A2", center_x |-> 90, center_y |-> 30, rotation |-> 90] }

ComponentConfig(name, pattern, x, y, deg, side, enabled) ==
    [name |-> name, annotation_pattern |-> pattern, x_offset_mm |-> x,
     y_offset_mm |-> y, orientation_deg |-> deg, pcb_side |-> side,
     enabled |-> enabled]

SwitchConfigs ==
    { ComponentConfig("Switch", "SW{}", 0, 0, 0, "Top", TRUE),
      ComponentConfig("Switch", "SW{}", 1000, 0, 90, "Bottom", TRUE),
      ComponentConfig("Switch", "SW{}", 0, 0, 0, "Top", FALSE) }

DiodeConfigs ==
    { NoConfig,
      ComponentConfig("Diode", "D{}", 0, 5000, 0, "Bottom", TRUE),
      ComponentConfig("Diode", "D{}", 0, 5000, 0, "Bottom", FALSE) }

AdditionalPool ==
    { ComponentConfig("LED", "LED{}", 2000, -1000, 90, "Top", TRUE),
      ComponentConfig("Hole", "MH{}", 0, 3000, 0, "Bottom", FALSE) }

SeqsUpTo(S, n) == UNION { [1..k -> S] : k \in 0..n }

RefUnits == { 0, DefaultRefUnitPx }
LayoutOffsets == { <<997, 2004>> }

\* The footprints of the board, by reference.
Footprint(x, y, deg, layer) == [pos |-> <<x, y>>, orient |-> deg, layer |-> layer]

AllRefs == { "SWA1", "SWA2", "DA1", "DA2", "LEDA1", "LEDA2" }

Boards ==
    { [r \in AllRefs |->
          IF r \in { "SWA1", "SWA2" } THEN Footprint(0, 0, 0, F_Cu)
          ELSE Footprint(5000000, 7000000, 180, B_Cu)],
      [r \in AllRefs |->
          IF r \in { "SWA1", "DA1" } THEN Footprint(0, 0, 0, F_Cu)
          ELSE IF r = "SWA2" THEN Footprint(1000000, 0, 90, B_Cu)
          ELSE NoTarget] }

\* The host call that raises, if any, and the text of its exception.
FaultPlans ==
    { NoFault,
      [ref |-> "SWA1", op |-> "FindFootprintByReference", text |-> "board closed"],
      [ref |-> "SWA1", op |-> "SetPosition", text |-> "boom"],
      [ref |-> "DA1", op |-> "SetOrientation", text |-> "Item not found"],
      [ref |-> "SWA1", op |-> "Flip", text |-> "boom"],
      [ref |-> "DA1", op |-> "Flip", text |-> "locked"] }

(***************************************************************************)
(* The host: pcbnew's board and footprints.                                *)
(***************************************************************************)
\* EDA_ANGLE::Normalize180: the angle in (-180, 180].
Normalize180(deg) ==
    LET m == deg % 360
    IN  IF m > 180 THEN m - 360 ELSE m

\* board.FindFootprintByReference(reference): the footprint, or None.
FindFootprintByReference(b, reference) ==
    IF reference \in DOMAIN b THEN b[reference] ELSE NoTarget

\* fp.SetPosition(pos)
SetPosition(fp, pos) == [fp EXCEPT !.pos = pos]

\* fp.SetOrientation(angle): the footprint keeps the normalized angle.
SetOrientation(fp, deg) == [fp EXCEPT !.orient = Normalize180(deg)]

FlipLayer(layer) == IF layer = F_Cu THEN B_Cu ELSE F_Cu

\* fp.Flip(centre, flipLeftRight), as KiCad's FOOTPRINT::Flip does it: the
\* position is mirrored about the centre (top-bottom unless flipLeftRight),
\* the layer changes side, and the orientation is mirrored with the
\* footprint (negated, turned by 180 degrees when flipLeftRight, normalized).
Flip(fp, centre, flipLeftRight) ==
    [pos |-> IF flipLeftRight
             THEN << 2 * centre[1] - fp.pos[1], fp.pos[2] >>
             ELSE << fp.pos[1], 2 * centre[2] - fp.pos[2] >>,
     layer |-> FlipLayer(fp.layer),
     orient |-> Normalize180((IF flipLeftRight THEN 180 ELSE 0) - fp.orient)]

(***************************************************************************)
(* footprint_placer.py                                                     *)
(***************************************************************************)
PlacementResult(reference, success, message) ==
    [reference |-> reference, success |-> success, message |-> message]

\* ensure_on_front(fp): the footprint after the call, and whether it flipped.
ensure_on_front(fp) ==
    IF fp.layer = B_Cu
    THEN [fp |-> Flip(fp, fp.pos, FALSE), flipped |-> TRUE]
    ELSE [fp |-> fp, flipped |-> FALSE]

\* Mutant: the footprint is flipped about the board origin.
ensure_on_back_AboutOrigin(fp) ==
    IF fp.layer = F_Cu
    THEN [fp |-> Flip(fp, << 0, 0 >>, FALSE), flipped |-> TRUE]
    ELSE [fp |-> fp, flipped |-> FALSE]

\* ensure_on_back(fp)
ensure_on_back(fp) ==
    IF fp.layer = F_Cu
    THEN [fp |-> Flip(fp, fp.pos, FALSE), flipped |-> TRUE]
    ELSE [fp |-> fp, flipped |-> FALSE]

\* Mutant: the key rotation is not negated.
OffsetAngle_NotNegated(key) == key.rotation

\* The angle rotate_offset is called with for a key.
OffsetAngle(key) == -key.rotation

\* Mutant: the key rotation is added.
TotalRotation_Added(config, key) == config.orientation_deg + key.rotation

\* The angle SetOrientation is called with.
TotalRotation(config, key) == config.orientation_deg - key.rotation

\* The side step of _place_component.
SetLayer(config, fp) ==
    IF config.pcb_side = "Bottom" THEN ensure_on_back(fp) ELSE ensure_on_front(fp)

\* Mutant: the layout offset is forgotten.
BasePosition_NoLayoutOffset(center, ref_unit, step, offset) ==
    TruncDiv(center * step, ref_unit)

\* The base position of a key on one axis.
BasePosition(center, ref_unit, step, offset) ==
    TruncDiv(center * step, ref_unit) + offset

\* Mutant: the message of a missing footprint is reworded.
NotFoundMessage_Reworded(reference) == "No footprint named " \o reference

\* The message of the missing-footprint result.
NotFoundMessage(reference) == "Footprint not found: " \o reference

\* The message of the except branch.
ErrorMessage(reference, text) == "Error placing " \o reference \o ": " \o text

\* Mutant: the except branch puts the footprint back as it was found.
ExceptBranch_RolledBack(fp, reached) == fp

\* The except branch of _place_component builds the result and undoes
\* nothing: the footprint stays as the last call that returned left it
\* (fp as it was found, reached as it is when the exception is caught).
ExceptBranch(fp, reached) == reached

\* FootprintPlacer._place_component.  plan is the host's fault plan.  The
\* value is the PlacementResult with the board as the call leaves it, or
\* escaped = TRUE when an exception leaves the method; the other fields keep
\* what the call computed and did.  (The degree sign of the placed message
\* is written "deg".)
PlaceComponent(b, plan, key, config, base_x_mm, base_y_mm, x_offset_mm, y_offset_mm) ==
    LET reference == Replace(config.annotation_pattern, "{}", key.label)
        Raises(op) == plan.ref = reference /\ plan.op = op
        fp == FindFootprintByReference(b, reference)
        rotated == rotate_offset(x_offset_mm, y_offset_mm, OffsetAngle(key))
        final_x_mm == base_x_mm + rotated[1]
        final_y_mm == base_y_mm + rotated[2]
        pos == << mm_to_nm(final_x_mm), mm_to_nm(final_y_mm) >>
        fp1 == SetPosition(fp, pos)
        total_rotation == TotalRotation(config, key)
        fp2 == SetOrientation(fp1, total_rotation)
        sided == SetLayer(config, fp2)
        Facts(found, calls, flipped) ==
            [reference |-> reference, found |-> found, before |-> fp,
             rotated |-> rotated, pos |-> pos, total_rotation |-> total_rotation,
             oriented |-> IF found THEN fp2 ELSE NoTarget,
             calls |-> calls, flipped |-> flipped]
        Out(escaped, result, fpAfter, facts) ==
            [escaped |-> escaped, result |-> result,
             board |-> IF fpAfter = NoTarget THEN b
                       ELSE [b EXCEPT ![reference] = fpAfter],
             facts |-> facts]
        Failed(fpAfter, calls) ==
            Out(FALSE, PlacementResult(reference, FALSE, ErrorMessage(reference, plan.text)),
                fpAfter, Facts(TRUE, calls, FALSE))
    IN  IF Raises("FindFootprintByReference")
        THEN Out(TRUE, PlacementResult(reference, FALSE, plan.text), NoTarget,
                 Facts(FALSE, << >>, FALSE))
        ELSE IF fp = NoTarget
        THEN Out(FALSE,
                 PlacementResult(reference, FALSE, NotFoundMessage(reference)),
                 NoTarget, Facts(FALSE, << >>, FALSE))
        ELSE IF Raises("SetPosition")
        THEN Failed(fp, << >>)
        ELSE IF Raises("SetOrientation")
        THEN Failed(ExceptBranch(fp, fp1), << "SetPosition" >>)
        ELSE IF sided.flipped /\ Raises("Flip")
        THEN Failed(ExceptBranch(fp, fp2), << "SetPosition", "SetOrientation" >>)
        ELSE Out(FALSE,
                 PlacementResult(reference, TRUE,
                     "Placed at (" \o Fmt2(final_x_mm) \o ", " \o Fmt2(final_y_mm)
                         \o ") mm, " \o FmtDeg(total_rotation) \o "deg"),
                 sided.fp,
                 Facts(TRUE,
                       IF sided.flipped
                       THEN << "SetPosition", "SetOrientation", "Flip" >>
                       ELSE << "SetPosition", "SetOrientation" >>,
                       sided.flipped))

\* Mutant: "if" for "elif": a placed result is classified a second time.
CategorizeResult_IfForElif(result, lists) ==
    LET l1 == IF result.success THEN [lists EXCEPT !.placed = Append(@, result)] ELSE lists
    IN  IF Contains(result.message, "not found")
        THEN [l1 EXCEPT !.missing = Append(@, result)]
        ELSE [l1 EXCEPT !.errors = Append(@, result)]

\* Mutant: the result is put at the head of its list.
CategorizeResult_Prepend(result, lists) ==
    IF result.success
    THEN [lists EXCEPT !.placed = << result >> \o @]
    ELSE IF Contains(result.message, "not found")
    THEN [lists EXCEPT !.missing = << result >> \o @]
    ELSE [lists EXCEPT !.errors = << result >> \o @]

\* FootprintPlacer._categorize_result: the result is appended to one of the
\* three lists; lists is [placed, missing, errors].
CategorizeResult(result, lists) ==
    IF result.success
    THEN [lists EXCEPT !.placed = Append(@, result)]
    ELSE IF Contains(result.message, "not found")
    THEN [lists EXCEPT !.missing = Append(@, result)]
    ELSE [lists EXCEPT !.errors = Append(@, result)]

(***************************************************************************)
(* JSON documents and the Python operations json_parser.py applies to      *)
(* them.  A value carries its Python type; an object keeps its fields in   *)
(* document order, as the dict json.load builds does.  A Python float in   *)
(* the extractor is a count of 1/FloatDen, so that width / 2 and the       *)
(* default 0.5 are exact.                                                  *)
(***************************************************************************)
FloatDen == 2

JNull == [t |-> "NoneType"]
JInt(n) == [t |-> "int", int |-> n]
JFloat(n) == [t |-> "float", float |-> n]
JStr(s) == [t |-> "str", str |-> s]
JList(s) == [t |-> "list", list |-> s]
JDict(items) == [t |-> "dict", dict |-> items]

\* The value None that a function returns.
None == [none |-> TRUE]

\* What a call does: it returns a value or raises an exception.
Return(value) == [raised |-> FALSE, value |-> value]
Raise(type, message) == [raised |-> TRUE, type |-> type, message |-> message]

\* list(d.keys()), k in d, d.get(k, default) of a dict d.
Keys(d) == [i \in 1..Len(d.dict) |-> d.dict[i][1]]
Has(d, k) == \E i \in 1..Len(d.dict) : d.dict[i][1] = k
Get(d, k, default) ==
    IF Has(d, k) THEN d.dict[CHOOSE i \in 1..Len(d.dict) : d.dict[i][1] = k][2]
    ELSE default

\* Python "k in container" for a str k.
In(k, container) ==
    CASE container.t = "dict" -> Return(Has(container, k))
      [] container.t = "list" ->
             Return(\E i \in 1..Len(container.list) :
                        container.list[i].t = "str" /\ container.list[i].str = k)
      [] container.t = "str" -> Return(Contains(container.str, k))
      [] OTHER -> Raise("TypeError",
                        "argument of type '" \o container.t \o "' is not iterable")

\* Python container[k] for a str k (the containers of In).
Item(container, k) ==
    CASE container.t = "dict" -> Return(Get(container, k, None))
      [] container.t = "list" ->
             Raise("TypeError", "list indices must be integers or slices, not str")
      [] OTHER -> Raise("TypeError", "string indices must be integers, not 'str'")

\* Python obj.get(k, default): only a dict has the method.
DotGet(obj, k, default) ==
    IF obj.t = "dict" THEN Return(Get(obj, k, default))
    ELSE Raise("AttributeError", "'" \o obj.t \o "' object has no attribute 'get'")

\* Python obj.keys()
DotKeys(obj) ==
    IF obj.t = "dict" THEN Return(Keys(obj))
    ELSE Raise("AttributeError", "'" \o obj.t \o "' object has no attribute 'keys'")

DigitOf(c) ==
    CASE c = "0" -> 0 [] c = "1" -> 1 [] c = "2" -> 2 [] c = "3" -> 3
      [] c = "4" -> 4 [] c = "5" -> 5 [] c = "6" -> 6 [] c = "7" -> 7
      [] c = "8" -> 8 [] c = "9" -> 9 [] OTHER -> -1

IsDigits(s) ==
    Len(s) > 0 /\ \A i \in 1..Len(s) : DigitOf(SubSeq(s, i, i)) >= 0

RECURSIVE NatOf(_)
NatOf(s) ==
    IF Len(s) = 0 THEN 0
    ELSE NatOf(SubSeq(s, 1, Len(s) - 1)) * 10 + DigitOf(SubSeq(s, Len(s), Len(s)))

RECURSIVE Pow10(_)
Pow10(n) == IF n = 0 THEN 1 ELSE 10 * Pow10(n - 1)

\* Python float(s) of a str s, in 1/den: an unsigned decimal numeral
\* ("60", "19.05"); every other text of the inputs is no number.
FloatOfText(s, den) ==
    LET dots == { i \in 1..Len(s) : SubSeq(s, i, i) = "." }
        dot == IF dots = {} THEN Len(s) + 1 ELSE CHOOSE i \in dots : TRUE
        whole == SubSeq(s, 1, dot - 1)
        frac == SubSeq(s, dot + 1, Len(s))
    IN  IF Cardinality(dots) <= 1 /\ IsDigits(whole) /\ (frac = "" \/ IsDigits(frac))
        THEN Return(NatOf(whole) * den + (NatOf(frac) * den) \div Pow10(Len(frac)))
        ELSE Raise("ValueError", "could not convert string to float: '" \o s \o "'")

\* Python float(v) of a JSON value.
Float(v) ==
    CASE v.t = "int" -> Return(v.int * FloatDen)
      [] v.t = "float" -> Return(v.float)
      [] v.t = "str" -> FloatOfText(v.str, FloatDen)
      [] OTHER -> Raise("TypeError",
                        "float() argument must be a string or a real number, not '"
                            \o v.t \o "'")

\* Python str(v) of a JSON str or int.
Str(v) == IF v.t = "str" THEN v.str ELSE ToString(v.int)

\* Python repr of a list of str.
RECURSIVE ReprItems(_)
ReprItems(names) ==
    IF Len(names) = 0 THEN ""
    ELSE IF Len(names) = 1 THEN "'" \o names[1] \o "'"
    ELSE "'" \o names[1] \o "', " \o ReprItems(Tail(names))

ReprList(names) == "[" \o ReprItems(names) \o "]"

\* The first call of a sequence of calls that raised, if any did.
FirstRaised(calls) ==
    LET bad == { i \in 1..Len(calls) : calls[i].raised }
    IN  IF bad = {} THEN None
        ELSE calls[CHOOSE i \in bad : \A j \in bad : i <= j]

(***************************************************************************)
(* json_parser.py                                                          *)
(***************************************************************************)
KeyData(label, center_x, center_y, width_u, height_u, rotation, rox, roy) ==
    [label |-> label, center_x |-> center_x, center_y |-> center_y,
     width_u |-> width_u, height_u |-> height_u, rotation |-> rotation,
     rotation_origin_x |-> rox, rotation_origin_y |-> roy]

\* Mutant: the message does not name the fields of the document.
StructureMessage_NoKeys(data) ==
    "Could not find nodes array in JSON. Tried: 'layout.nodes', 'nodes'."

\* The message of the ValueError raised when no shape yields an array.
StructureMessage(data) ==
    "Could not find nodes array in JSON. Tried: 'layout.nodes', 'nodes'. "
        \o "Available top-level keys: " \o ReprList(Keys(data))

\* The message of the ValueError raised on a scalar document.
ShapeMessage(data) == "Expected JSON object or array, got " \o data.t

\* data['nodes'] is a list.
HasNodesList(data) ==
    data.t = "dict" /\ Has(data, "nodes") /\ Get(data, "nodes", None).t = "list"

\* Mutant: data.nodes is tried before data.layout.nodes.
find_nodes_FlatFirst(data) ==
    IF data.t = "list" THEN Return(data.list)
    ELSE IF data.t # "dict" THEN Raise("ValueError", ShapeMessage(data))
    ELSE IF HasNodesList(data) THEN Return(Get(data, "nodes", None).list)
    ELSE IF Has(data, "layout") /\ HasNodesList(Get(data, "layout", None))
    THEN Return(Get(Get(data, "layout", None), "nodes", None).list)
    ELSE Raise("ValueError", StructureMessage(data))

\* Mutant: data.nodes is not tried.
find_nodes_NoFlat(data) ==
    IF data.t = "list" THEN Return(data.list)
    ELSE IF data.t # "dict" THEN Raise("ValueError", ShapeMessage(data))
    ELSE IF Has(data, "layout") /\ HasNodesList(Get(data, "layout", None))
    THEN Return(Get(Get(data, "layout", None), "nodes", None).list)
    ELSE Raise("ValueError", StructureMessage(data))

\* find_nodes(data): the nodes array, or ValueError.
find_nodes(data) ==
    IF data.t = "list" THEN Return(data.list)
    ELSE IF data.t # "dict" THEN Raise("ValueError", ShapeMessage(data))
    ELSE IF Has(data, "layout") /\ HasNodesList(Get(data, "layout", None))
    THEN Return(Get(Get(data, "layout", None), "nodes", None).list)
    ELSE IF HasNodesList(data) THEN Return(Get(data, "nodes", None).list)
    ELSE Raise("ValueError", StructureMessage(data))

\* The call made after the call prev, unless prev raised.
Then(prev, call) == IF prev.raised THEN prev ELSE call

\* float(obj.get(k, default))
FloatGet(obj, k, default) ==
    LET got == DotGet(obj, k, default)
    IN  IF got.raised THEN got ELSE Float(got.value)

DefaultSizePx == 60

\* Mutant: the size is read from the position sub-object.
SizePx_FromPosition(node, position, name) == FloatGet(position, name, JInt(DefaultSizePx))

\* float(node.get('width', 60)), float(node.get('height', 60))
SizePx(node, position, name) == FloatGet(node, name, JInt(DefaultSizePx))

\* label is None
LabelIsNone(label) == label.t = "NoneType"

\* parse_node(node): a KeyData, None, or the exception of the first
\* statement that raises.  Every step is made after the steps before it.
parse_node(node) ==
    LET has_position == In("position", node)
        has_data == Then(has_position, In("data", node))
        position == Then(has_data, Item(node, "position"))
        data == Then(position, Item(node, "data"))
        x == Then(data, FloatGet(position.value, "x", JInt(0)))
        y == Then(x, FloatGet(position.value, "y", JInt(0)))
        width_px == Then(y, SizePx(node, position.value, "width"))
        height_px == Then(width_px, SizePx(node, position.value, "height"))
        label == Then(height_px, DotGet(data.value, "label", JNull))
        width_u == Then(label, FloatGet(data.value, "widthU", JInt(1)))
        height_u == Then(width_u, FloatGet(data.value, "heightU", JInt(1)))
        rotation == Then(height_u, FloatGet(data.value, "rotation", JInt(0)))
        rotation_origin_x ==
            Then(rotation, FloatGet(data.value, "rotationOriginX", JFloat(1)))
        rotation_origin_y ==
            Then(rotation_origin_x, FloatGet(data.value, "rotationOriginY", JFloat(1)))
    IN  IF has_position.raised THEN has_position
        ELSE IF ~has_position.value THEN Return(None)
        ELSE IF ~has_data.value THEN Return(None)
        ELSE IF label.raised THEN label
        ELSE IF LabelIsNone(label.value) THEN Return(None)
        ELSE IF rotation_origin_y.raised THEN rotation_origin_y
        ELSE Return(KeyData(Str(label.value),
                            x.value + width_px.value \div 2,
                            y.value + height_px.value \div 2,
                            width_u.value, height_u.value, rotation.value,
                            rotation_origin_x.value, rotation_origin_y.value))

\* The loop of parse_kdt_data over the nodes left, keys being the list so far.
RECURSIVE ParseNodes(_, _)
ParseNodes(nodes, keys) ==
    IF nodes = << >> THEN Return(keys)
    ELSE LET key == parse_node(Head(nodes))
         IN  IF key.raised THEN key
             ELSE ParseNodes(Tail(nodes),
                             IF key.value = None THEN keys ELSE Append(keys, key.value))

\* parse_kdt_data(data): the list of KeyData, or the exception that leaves it.
parse_kdt_data(data) ==
    LET nodes == find_nodes(data)
    IN  IF nodes.raised THEN nodes ELSE ParseNodes(nodes.value, << >>)

CheckedNodes == 5
ShownIssues == 3

\* One turn of the first loop of validate_json_structure, on node i (from
\* 0): whether the node counts as a key and the issue reported for it ("" for
\* none), or the exception raised.
CheckNode(i, node) ==
    LET has_position == In("position", node)
        has_data == Then(has_position, In("data", node))
        node_data == Then(has_data, DotGet(node, "data", JDict(<< >>)))
        has_label ==
            IF has_data.raised THEN has_data
            ELSE IF ~has_data.value THEN Return(FALSE)
            ELSE Then(node_data, In("label", node_data.value))
        data_keys == Then(has_label, DotKeys(node_data.value))
    IN  IF has_label.raised THEN has_label
        ELSE IF has_position.value /\ has_data.value /\ has_label.value
        THEN Return([valid |-> TRUE, issue |-> ""])
        ELSE IF i >= ShownIssues THEN Return([valid |-> FALSE, issue |-> ""])
        ELSE IF has_data.value /\ data_keys.raised THEN data_keys
        ELSE Return([valid |-> FALSE,
                     issue |-> "Node " \o ToString(i) \o ": keys="
                         \o (IF node.t = "dict" THEN ReprList(Keys(node))
                             ELSE "not a dict: <class '" \o node.t \o "'>")
                         \o ", data_keys="
                         \o (IF has_data.value THEN ReprList(data_keys.value)
                             ELSE "no data")])

\* One turn of the second loop (nodes[5:]): whether the node counts.
CountNode(node) ==
    LET has_position == In("position", node)
        has_data == Then(has_position, In("data", node))
        node_data == Then(has_data, DotGet(node, "data", JDict(<< >>)))
    IN  IF has_data.raised THEN has_data
        ELSE IF ~(has_position.value /\ has_data.value) THEN Return(FALSE)
        ELSE Then(node_data, In("label", node_data.value))

\* Both loops over the nodes from index i on: valid_keys and issues at the
\* end, or the exception raised.
RECURSIVE CheckNodes(_, _, _, _)
CheckNodes(nodes, i, valid_keys, issues) ==
    IF i >= Len(nodes) THEN Return([valid_keys |-> valid_keys, issues |-> issues])
    ELSE IF i < CheckedNodes
    THEN LET c == CheckNode(i, nodes[i + 1])
         IN  IF c.raised THEN c
             ELSE CheckNodes(nodes, i + 1,
                             IF c.value.valid THEN valid_keys + 1 ELSE valid_keys,
                             IF c.value.issue = "" THEN issues
                             ELSE Append(issues, c.value.issue))
    ELSE LET c == CountNode(nodes[i + 1])
         IN  IF c.raised THEN c
             ELSE CheckNodes(nodes, i + 1,
                             IF c.value THEN valid_keys + 1 ELSE valid_keys, issues)

\* "; ".join(issues)
RECURSIVE Join(_)
Join(issues) ==
    IF Len(issues) = 0 THEN ""
    ELSE IF Len(issues) = 1 THEN issues[1]
    ELSE issues[1] \o "; " \o Join(Tail(issues))

\* validate_json_structure on the document the file holds: the pair
\* (is_valid, message) with the locals it was built from, or the exception
\* that leaves the function.
validate_json_structure(data) ==
    LET found == find_nodes(data)
        nodes == found.value
        checked == CheckNodes(nodes, 0, 0, << >>)
        Pair(is_valid, message, valid_keys, issues) ==
            Return([is_valid |-> is_valid, message |-> message,
                    valid_keys |-> valid_keys, issues |-> issues])
    IN  IF found.raised THEN Pair(FALSE, found.message, 0, << >>)
        ELSE IF Len(nodes) = 0 THEN Pair(FALSE, "No nodes found in layout", 0, << >>)
        ELSE IF checked.raised THEN checked
        ELSE IF checked.value.valid_keys = 0
        THEN Pair(FALSE,
                  "No valid key nodes found. Found " \o ToString(Len(nodes))
                      \o " nodes total. "
                      \o (IF checked.value.issues # << >>
                          THEN "Issues: " \o Join(checked.value.issues) ELSE ""),
                  0, checked.value.issues)
        ELSE Pair(TRUE, "Valid JSON with " \o ToString(checked.value.valid_keys) \o " keys",
                  checked.value.valid_keys, checked.value.issues)

(***************************************************************************)
(* kdt_placer_dialog.py: the dialog's controls hold texts; a control is    *)
(* read by GetValue.                                                       *)
(***************************************************************************)
\* float(text or default): the default when the control is empty.
FloatOr(text, default, den) ==
    IF text = "" THEN Return(default) ELSE FloatOfText(text, den)

ID_OK == "ID_OK"
ID_CANCEL == "ID_CANCEL"

\* One row of the additional components and the controls of the dialog.
ComponentRow(name, pattern, x_offset, y_offset, rotation, side) ==
    [name |-> name, pattern |-> pattern, x_offset |-> x_offset,
     y_offset |-> y_offset, rotation |-> rotation, side |-> side]

\* Mutant: the diode pattern is not checked.
validate_NoDiodeCheck(controls, files) ==
    LET Number(text) == ~FloatOfText(text, MmDen).raised
        rows == controls.additional_components
        bad == { i \in 1..Len(rows) : ~Contains(rows[i].pattern, "{}") }
    IN  IF controls.json_file = "" THEN << FALSE, "Please select a JSON file" >>
        ELSE IF controls.json_file \notin files
        THEN << FALSE, "JSON file not found: " \o controls.json_file >>
        ELSE IF ~Number(controls.step_x) THEN << FALSE, "Step X must be a number" >>
        ELSE IF ~Number(controls.step_y) THEN << FALSE, "Step Y must be a number" >>
        ELSE IF ~Number(controls.ref_unit)
        THEN << FALSE, "Reference Unit Size must be a number" >>
        ELSE IF ~Contains(controls.switch_pattern, "{}")
        THEN << FALSE, "Switch annotation pattern must contain {}" >>
        ELSE IF bad # { }
        THEN << FALSE, "Additional component '"
                          \o rows[CHOOSE i \in bad : \A j \in bad : i <= j].name
                          \o "' pattern must contain {}" >>
        ELSE << TRUE, "" >>

\* KDTPlacerDialog.validate: the pair (is_valid, message); files are the
\* paths that exist.
validate(controls, files) ==
    LET Number(text) == ~FloatOfText(text, MmDen).raised
        rows == controls.additional_components
        bad == { i \in 1..Len(rows) : ~Contains(rows[i].pattern, "{}") }
    IN  IF controls.json_file = "" THEN << FALSE, "Please select a JSON file" >>
        ELSE IF controls.json_file \notin files
        THEN << FALSE, "JSON file not found: " \o controls.json_file >>
        ELSE IF ~Number(controls.step_x) THEN << FALSE, "Step X must be a number" >>
        ELSE IF ~Number(controls.step_y) THEN << FALSE, "Step Y must be a number" >>
        ELSE IF ~Number(controls.ref_unit)
        THEN << FALSE, "Reference Unit Size must be a number" >>
        ELSE IF ~Contains(controls.switch_pattern, "{}")
        THEN << FALSE, "Switch annotation pattern must contain {}" >>
        ELSE IF controls.diode_enabled /\ ~Contains(controls.diode_pattern, "{}")
        THEN << FALSE, "Diode annotation pattern must contain {}" >>
        ELSE IF bad # { }
        THEN << FALSE, "Additional component '"
                          \o rows[CHOOSE i \in bad : \A j \in bad : i <= j].name
                          \o "' pattern must contain {}" >>
        ELSE << TRUE, "" >>

\* KDTPlacerDialog.get_settings: the settings, or the ValueError of the
\* first float() that fails.  Lengths are in 1/MmDen mm, the reference unit
\* in 1/FloatDen px as the key centres are, angles in degrees.
get_settings(controls) ==
    LET rows == controls.additional_components
        row_calls ==
            [i \in 1..(3 * Len(rows)) |->
                LET row == rows[(i + 2) \div 3]
                IN  CASE i % 3 = 1 -> FloatOr(row.x_offset, 0, MmDen)
                      [] i % 3 = 2 -> FloatOr(row.y_offset, 0, MmDen)
                      [] OTHER -> FloatOr(row.rotation, 0, 1)]
        step_x_mm == FloatOr(controls.step_x, DefaultStepMm, MmDen)
        step_y_mm == FloatOr(controls.step_y, DefaultStepMm, MmDen)
        ref_unit_px == FloatOr(controls.ref_unit, DefaultRefUnitPx * FloatDen, FloatDen)
        offset_x_mm == FloatOr(controls.offset_x, 0, MmDen)
        offset_y_mm == FloatOr(controls.offset_y, 0, MmDen)
        switch_orientation == FloatOr(controls.switch_orientation, 0, 1)
        diode_x == FloatOr(controls.diode_x_offset, 0, MmDen)
        diode_y == FloatOr(controls.diode_y_offset, 5 * MmDen, MmDen)
        diode_orientation == FloatOr(controls.diode_orientation, 0, 1)
        failed == FirstRaised(row_calls \o << step_x_mm, step_y_mm, ref_unit_px,
                                             offset_x_mm, offset_y_mm,
                                             switch_orientation, diode_x, diode_y,
                                             diode_orientation >>)
    IN  IF failed # None THEN failed
        ELSE Return(
            [json_file |-> controls.json_file,
             step_x_mm |-> step_x_mm.value,
             step_y_mm |-> step_y_mm.value,
             ref_unit_px |-> ref_unit_px.value,
             offset_x_mm |-> offset_x_mm.value,
             offset_y_mm |-> offset_y_mm.value,
             switch_config |->
                 ComponentConfig("Switch", controls.switch_pattern, 0, 0,
                                 switch_orientation.value, controls.switch_side, TRUE),
             diode_config |->
                 ComponentConfig("Diode", controls.diode_pattern, diode_x.value,
                                 diode_y.value, diode_orientation.value,
                                 controls.diode_side, controls.diode_enabled),
             additional_configs |->
                 [i \in 1..Len(rows) |->
                     ComponentConfig(rows[i].name, rows[i].pattern,
                                     row_calls[3 * i - 2].value,
                                     row_calls[3 * i - 1].value,
                                     row_calls[3 * i].value, rows[i].side, TRUE)]])

\* KDTPlacerDialog.get_serializable_settings: the texts of the controls.
get_serializable_settings(controls) == controls

(***************************************************************************)
(* kdt_placer_action.py                                                    *)
(***************************************************************************)
\* A layout file that is no JSON.
BadJson == [t |-> "invalid"]

\* validate_json_structure(json_path) on the file, from json.load on.
validate_json_file(data) ==
    IF data = BadJson
    THEN Return([is_valid |-> FALSE, message |-> "Invalid JSON: Expecting value",
                 valid_keys |-> 0, issues |-> << >>])
    ELSE validate_json_structure(data)

\* parse_kdt_json(json_path)
parse_kdt_json(data) ==
    IF data = BadJson THEN Raise("JSONDecodeError", "Expecting value")
    ELSE parse_kdt_data(data)

\* A KeyData as place_keys reads it: the centre stays in 1/FloatDen px, as
\* the reference unit is (place_keys reads them in their quotient only);
\* the rotation is a whole number of degrees.
PlacerKey(k) == [k EXCEPT !.rotation = @ \div FloatDen]

DefaultOffsetMm == 0

(***************************************************************************)
(* State.                                                                  *)
(***************************************************************************)
VARIABLES
    keys, switch_config, diode_config, additional_configs,  \* arguments of
    step_x_mm, step_y_mm, ref_unit_px,                      \* place_keys
    offset_x_mm, offset_y_mm,
    plan,        \* the host's fault plan
    board,       \* self.board: reference -> footprint
    pc,          \* "ready", "loop", "returned" or "raised"
    run,         \* 1 in the first call of place_keys, 2 in the second
    key_i,       \* index of the key of the outer loop
    slot,        \* 0: computing x_mm, y_mm; 1: switch; 2: diode; 3..: additional
    x_mm, y_mm,  \* locals of place_keys
    lists,       \* locals placed, missing, errors
    summary,     \* the PlacementSummary returned
    first,       \* the summary and the board the first call left
    log          \* the attempts made in this call, in order

VARIABLES
    document,    \* the JSON document the layout file holds
    nodes,       \* what find_nodes did in parse_kdt_data, None before the call
    extracted,   \* what parse_kdt_data did on it, None before the call
    validated,   \* what validate_json_structure did on it, None before the call
    dialog,      \* the host's answers and the dialog's controls in a plugin run
    run_pc,      \* the position of KDTPlacerAction.Run, "off" outside a plugin run
    saved,       \* the settings save_settings was last called with, or None
    checked,     \* the pair dialog.validate() returned, None before the call
    settings     \* what dialog.get_settings() did, None before the call

\* The state place_keys reads and never writes: its arguments, and the state
\* of the extractor and of the plugin.
extractor == << document, nodes, extracted, validated >>
runner == << dialog, run_pc, saved, checked, settings >>
plugin == << extractor, runner >>
place_args == << keys, switch_config, diode_config, additional_configs, step_x_mm,
                 step_y_mm, ref_unit_px, offset_x_mm, offset_y_mm >>
args == << place_args, plan, plugin >>
placement == << board, pc, run, key_i, slot, x_mm, y_mm, lists, summary, first, log >>
vars == << args, placement >>

NoSummary == [none |-> TRUE]

\* No extraction and no plugin run is under way.
PluginOff ==
    /\ document = JNull
    /\ nodes = None
    /\ extracted = None
    /\ validated = None
    /\ dialog = None
    /\ run_pc = "off"
    /\ saved = None
    /\ checked = None
    /\ settings = None

EmptyLists == [placed |-> << >>, missing |-> << >>, errors |-> << >>]

Init ==
    /\ keys \in SeqsUpTo(KeyPool, MaxKeys)
    /\ switch_config \in SwitchConfigs
    /\ diode_config \in DiodeConfigs
    /\ additional_configs \in SeqsUpTo(AdditionalPool, MaxAdditional)
    /\ step_x_mm = DefaultStepMm
    /\ step_y_mm = DefaultStepMm
    /\ ref_unit_px \in RefUnits
    /\ \E o \in LayoutOffsets : offset_x_mm = o[1] /\ offset_y_mm = o[2]
    /\ plan \in FaultPlans
    /\ board \in Boards
    /\ pc = "ready"
    /\ run = 1
    /\ key_i = 0
    /\ slot = 0
    /\ x_mm = 0
    /\ y_mm = 0
    /\ lists = EmptyLists
    /\ summary = NoSummary
    /\ first = NoSummary
    /\ log = << >>
    /\ PluginOff

(***************************************************************************)
(* FootprintPlacer.place_keys, one action per step of its loops.           *)
(***************************************************************************)
\* The loop position after the rule at slot s.
AfterSlot(s) ==
    IF s < 2 + Len(additional_configs) THEN << key_i, s + 1 >> ELSE << key_i + 1, 0 >>

\* Entry: placed = [], missing = [], errors = [].
PlaceKeysBegin ==
    /\ pc = "ready"
    /\ pc' = "loop"
    /\ lists' = EmptyLists
    /\ log' = << >>
    /\ key_i' = 1
    /\ slot' = 0
    /\ summary' = NoSummary
    /\ UNCHANGED << args, board, run, x_mm, y_mm, first >>

\* for key in keys: x_mm = ..., y_mm = ...  (a zero ref_unit_px raises
\* ZeroDivisionError, outside every try).
ComputeBase ==
    /\ pc = "loop"
    /\ key_i <= Len(keys)
    /\ slot = 0
    /\ IF ref_unit_px = 0
       THEN /\ pc' = "raised"
            /\ UNCHANGED << x_mm, y_mm, slot >>
       ELSE /\ x_mm' = BasePosition(keys[key_i].center_x, ref_unit_px, step_x_mm, offset_x_mm)
            /\ y_mm' = BasePosition(keys[key_i].center_y, ref_unit_px, step_y_mm, offset_y_mm)
            /\ slot' = 1
            /\ pc' = pc
    /\ UNCHANGED << args, board, run, key_i, lists, summary, first, log >>

\* The rule skipped: nothing happens but the loop going on.
Skip ==
    /\ key_i' = AfterSlot(slot)[1]
    /\ slot' = AfterSlot(slot)[2]
    /\ UNCHANGED << args, board, pc, run, x_mm, y_mm, lists, summary, first, log >>

\* result = self._place_component(key, config, x_mm, y_mm, dx, dy)
\* self._categorize_result(result, placed, missing, errors)
\* The log keeps what the attempt was given, what it did and what it left.
Attempt(config, dx, dy) ==
    LET out == PlaceComponent(board, plan, keys[key_i], config, x_mm, y_mm, dx, dy)
    IN  IF out.escaped
        THEN /\ pc' = "raised"
             /\ UNCHANGED << args, board, run, key_i, slot, x_mm, y_mm, lists,
                             summary, first, log >>
        ELSE /\ pc' = pc
             /\ board' = out.board
             /\ lists' = CategorizeResult(out.result, lists)
             /\ key_i' = AfterSlot(slot)[1]
             /\ slot' = AfterSlot(slot)[2]
             /\ log' = Append(log, [key_i |-> key_i, slot |-> slot, config |-> config,
                                    base |-> << x_mm, y_mm >>, result |-> out.result,
                                    facts |-> out.facts,
                                    board_before |-> board, board_after |-> board',
                                    lists_before |-> lists, lists_after |-> lists',
                                    next |-> << key_i', slot' >>, pc |-> pc'])
             /\ UNCHANGED << args, run, x_mm, y_mm, summary, first >>

\* The offsets the switch is placed with.
SwitchOffsets(config) == << 0, 0 >>

\* The offsets the diode and the additional components are placed with.
RuleOffsets(config) == << config.x_offset_mm, config.y_offset_mm >>

\* if switch_config.enabled: place the switch at the key's centre.
PlaceSwitch ==
    /\ pc = "loop"
    /\ key_i <= Len(keys)
    /\ slot = 1
    /\ IF switch_config.enabled
       THEN Attempt(switch_config, SwitchOffsets(switch_config)[1],
                    SwitchOffsets(switch_config)[2])
       ELSE Skip

\* if diode_config and diode_config.enabled: place the diode.
PlaceDiode ==
    /\ pc = "loop"
    /\ key_i <= Len(keys)
    /\ slot = 2
    /\ IF diode_config # NoConfig /\ diode_config.enabled
       THEN Attempt(diode_config, RuleOffsets(diode_config)[1], RuleOffsets(diode_config)[2])
       ELSE Skip

\* for config in additional_configs: if config.enabled: place it.
PlaceAdditional ==
    /\ pc = "loop"
    /\ key_i <= Len(keys)
    /\ slot >= 3
    /\ IF additional_configs[slot - 2].enabled
       THEN Attempt(additional_configs[slot - 2],
                    RuleOffsets(additional_configs[slot - 2])[1],
                    RuleOffsets(additional_configs[slot - 2])[2])
       ELSE Skip

\* return PlacementSummary(total_keys=len(keys), placed, missing, errors)
PlaceKeysReturn ==
    /\ pc = "loop"
    /\ key_i > Len(keys)
    /\ pc' = "returned"
    /\ summary' = [total_keys |-> Len(keys), placed |-> lists.placed,
                   missing |-> lists.missing, errors |-> lists.errors]
    /\ UNCHANGED << args, board, run, key_i, slot, x_mm, y_mm, lists, first, log >>

\* The caller runs place_keys again with the same arguments on the board
\* the first call left.
RunAgain ==
    /\ pc = "returned"
    /\ run = 1
    /\ first' = [summary |-> summary, board |-> board]
    /\ run' = 2
    /\ pc' = "ready"
    /\ UNCHANGED << args, board, key_i, slot, x_mm, y_mm, lists, summary, log >>

Next ==
    \/ PlaceKeysBegin
    \/ ComputeBase
    \/ PlaceSwitch
    \/ PlaceDiode
    \/ PlaceAdditional
    \/ PlaceKeysReturn
    \/ RunAgain

Spec == Init /\ [][Next]_vars

(***************************************************************************)
(* The same program started on the inputs that exercise rotate_offset:     *)
(* one key at every quarter turn, a diode rule and an additional rule at   *)
(* every offset of a small grid.                                           *)
(***************************************************************************)
QuarterTurns == { -270, -180, -90, 0, 90, 180, 270, 360 }
OffsetGrid == { -5000, 0, 2000, 5000 }

InitRotate ==
    /\ \E r \in QuarterTurns :
          keys = << [label |-> "A1", center_x |-> 30, center_y |-> 30, rotation |-> r] >>
    /\ switch_config = ComponentConfig("Switch", "SW{}", 0, 0, 0, "Top", FALSE)
    /\ \E dx \in OffsetGrid, dy \in OffsetGrid :
          /\ diode_config = ComponentConfig("Diode", "D{}", dx, dy, 0, "Bottom", TRUE)
          /\ additional_configs
                 = << ComponentConfig("LED", "LED{}", dy, dx, 90, "Top", TRUE) >>
    /\ step_x_mm = DefaultStepMm
    /\ step_y_mm = DefaultStepMm
    /\ ref_unit_px = DefaultRefUnitPx
    /\ \E o \in LayoutOffsets : offset_x_mm = o[1] /\ offset_y_mm = o[2]
    /\ plan = NoFault
    /\ board \in Boards
    /\ pc = "ready"
    /\ run = 1
    /\ key_i = 0
    /\ slot = 0
    /\ x_mm = 0
    /\ y_mm = 0
    /\ lists = EmptyLists
    /\ summary = NoSummary
    /\ first = NoSummary
    /\ log = << >>
    /\ PluginOff

SpecRotate == InitRotate /\ [][Next]_vars

(***************************************************************************)
(* The extractor on its own: parse_kdt_data and validate_json_structure    *)
(* applied to every document of a pool made of the accepted shapes, the    *)
(* refused ones, and arrays of well-formed and defective nodes.            *)
(***************************************************************************)
MaxNodes == 2

Position(items) == << "position", JDict(items) >>
Data(items) == << "data", JDict(items) >>

NodePool ==
    { \* a key with every field of the anchor, the size and the rotation
      JDict(<< Position(<< << "x", JInt(10) >>, << "y", JInt(20) >> >>),
               << "width", JInt(80) >>, << "height", JInt(40) >>,
               Data(<< << "label", JStr("A1") >>, << "rotation", JInt(90) >> >>) >>),
      \* a key with defaults only
      JDict(<< Position(<< >>), Data(<< << "label", JStr("A2") >> >>) >>),
      \* sizes in the wrong places, a number in a string, a number as label
      JDict(<< Position(<< << "x", JStr("12") >>, << "width", JInt(100) >> >>),
               Data(<< << "label", JInt(7) >>, << "height", JInt(200) >>,
                       << "widthU", JInt(2) >> >>) >>),
      \* no position, no data, no label
      JDict(<< Data(<< << "label", JStr("B1") >> >>) >>),
      JDict(<< Position(<< << "x", JInt(1) >> >>), << "id", JStr("n1") >> >>),
      JDict(<< Position(<< >>), Data(<< << "rotation", JInt(0) >> >>) >>),
      \* a null label, an empty label
      JDict(<< Position(<< >>), Data(<< << "label", JNull >> >>) >>),
      JDict(<< Position(<< >>), Data(<< << "label", JStr("") >> >>) >>),
      \* nodes that are no objects
      JInt(5),
      JList(<< JStr("position"), JStr("data") >>),
      \* a null position without label, a null data, a list as data
      JDict(<< << "position", JNull >>, Data(<< >>) >>),
      JDict(<< Position(<< >>), << "data", JNull >> >>),
      JDict(<< Position(<< >>), << "data", JList(<< JStr("x") >>) >> >>),
      \* a field that is no number
      JDict(<< Position(<< << "x", JStr("abc") >> >>),
               Data(<< << "label", JStr("C1") >> >>) >>) }

NodeArrays == SeqsUpTo(NodePool, MaxNodes)

\* A nodes array no shape other than the intended one holds.
OtherNodes == JList(<< JDict(<< Position(<< >>), Data(<< << "label", JStr("Z9") >> >>) >>) >>)

\* The documents: each array under each shape; the short arrays beside
\* another shape; documents in which no shape yields an array; scalars.
Documents ==
    UNION { { JList(a),
              JDict(<< << "edges", JList(<< >>) >>, << "nodes", JList(a) >> >>),
              JDict(<< << "layout", JDict(<< << "nodes", JList(a) >> >>) >> >>),
              JDict(<< << "board", JDict(<< << "nodes", JList(a) >> >>) >> >>) }
            : a \in NodeArrays }
    \cup
    UNION { { JDict(<< << "nodes", OtherNodes >>,
                       << "layout", JDict(<< << "nodes", JList(a) >> >>) >> >>),
              JDict(<< << "layout", JDict(<< << "nodes", JStr("none") >> >>) >>,
                       << "nodes", JList(a) >> >>),
              JDict(<< << "layout", JInt(1) >>, << "nodes", JList(a) >> >>) }
            : a \in SeqsUpTo(NodePool, 1) }
    \cup { JNull, JInt(5), JStr("nodes"),
           JDict(<< >>),
           JDict(<< << "nodes", JInt(5) >> >>),
           JDict(<< << "viewport", JDict(<< >>) >>, << "edges", JList(<< >>) >> >>),
           JDict(<< << "layout", JDict(<< << "edges", JList(<< >>) >> >>) >> >>) }

InitParse ==
    /\ document \in Documents
    /\ nodes = None
    /\ extracted = None
    /\ validated = None
    /\ dialog = None
    /\ run_pc = "off"
    /\ saved = None
    /\ checked = None
    /\ settings = None
    /\ keys = << >>
    /\ switch_config = NoConfig
    /\ diode_config = NoConfig
    /\ additional_configs = << >>
    /\ step_x_mm = DefaultStepMm
    /\ step_y_mm = DefaultStepMm
    /\ ref_unit_px = DefaultRefUnitPx
    /\ offset_x_mm = 0
    /\ offset_y_mm = 0
    /\ plan = NoFault
    /\ board = [r \in AllRefs |-> NoTarget]
    /\ pc = "idle"
    /\ run = 1
    /\ key_i = 0
    /\ slot = 0
    /\ x_mm = 0
    /\ y_mm = 0
    /\ lists = EmptyLists
    /\ summary = NoSummary
    /\ first = NoSummary
    /\ log = << >>

\* parse_kdt_data: nodes = find_nodes(data); its ValueError leaves the call.
FindNodes ==
    /\ nodes = None
    /\ nodes' = find_nodes(document)
    /\ extracted' = IF nodes'.raised THEN nodes' ELSE extracted
    /\ UNCHANGED << place_args, plan, document, validated, runner, placement >>

\* parse_kdt_data: the loop over the nodes and the return of keys.
ParseKeys ==
    /\ nodes # None
    /\ extracted = None
    /\ extracted' = ParseNodes(nodes.value, << >>)
    /\ UNCHANGED << place_args, plan, document, nodes, validated, runner, placement >>

\* is_valid, message = validate_json_structure(json_path)
Validate ==
    /\ validated = None
    /\ validated' = validate_json_structure(document)
    /\ UNCHANGED << place_args, plan, document, nodes, extracted, runner, placement >>

NextParse ==
    \/ FindNodes
    \/ ParseKeys
    \/ Validate

SpecParse == InitParse /\ [][NextParse]_vars

(***************************************************************************)
(* A plugin run: KDTPlacerAction.Run from the toolbar button to its        *)
(* return, with the host's answers, the dialog's controls and the layout   *)
(* file drawn from pools.                                                  *)
(***************************************************************************)
LayoutFile == "layout.json"

KeyNodeA1 ==
    JDict(<< Position(<< << "x", JInt(10) >>, << "y", JInt(20) >> >>),
             << "width", JInt(80) >>, << "height", JInt(40) >>,
             Data(<< << "label", JStr("A1") >>, << "rotation", JInt(90) >> >>) >>)
KeyNodeA2 == JDict(<< Position(<< >>), Data(<< << "label", JStr("A2") >> >>) >>)

RunDocuments ==
    { JList(<< KeyNodeA1, KeyNodeA2 >>),
      JDict(<< << "layout", JDict(<< << "nodes", JList(<< KeyNodeA2 >>) >> >>) >> >>),
      \* no node array; no JSON
      JDict(<< >>),
      BadJson,
      \* a node the extractor fails on after a key; a node validation fails on
      JList(<< KeyNodeA2,
               JDict(<< Position(<< << "x", JStr("abc") >> >>),
                        Data(<< << "label", JStr("C1") >> >>) >>) >>),
      JList(<< JInt(5) >>),
      \* a null label only
      JList(<< JDict(<< Position(<< >>), Data(<< << "label", JNull >> >>) >>) >>) }

DefaultControls ==
    [json_file |-> LayoutFile, step_x |-> "19.05", step_y |-> "19.05",
     ref_unit |-> "60", offset_x |-> "10", offset_y |-> "2.5",
     switch_pattern |-> "SW{}", switch_orientation |-> "0", switch_side |-> "Top",
     diode_enabled |-> TRUE, diode_pattern |-> "D{}", diode_x_offset |-> "0",
     diode_y_offset |-> "5", diode_orientation |-> "90", diode_side |-> "Bottom",
     additional_components |-> << >>]

ControlsPool ==
    { DefaultControls,
      [DefaultControls EXCEPT !.offset_x = "0", !.offset_y = "0"],
      [DefaultControls EXCEPT !.offset_x = "", !.diode_y_offset = ""],
      [DefaultControls EXCEPT !.offset_x = "abc"],
      [DefaultControls EXCEPT !.json_file = ""],
      [DefaultControls EXCEPT !.json_file = "missing.json"],
      [DefaultControls EXCEPT !.step_x = "abc"],
      [DefaultControls EXCEPT !.step_y = ""],
      [DefaultControls EXCEPT !.ref_unit = "sixty"],
      [DefaultControls EXCEPT !.switch_pattern = "SW"],
      [DefaultControls EXCEPT !.diode_pattern = "D"],
      [DefaultControls EXCEPT !.diode_pattern = "D", !.diode_enabled = FALSE],
      [DefaultControls EXCEPT !.additional_components =
          << ComponentRow("LED", "LED{}", "2", "", "90", "Top") >>],
      [DefaultControls EXCEPT !.additional_components =
          << ComponentRow("LED", "LED{}", "2", "1", "90", "Top"),
             ComponentRow("Hole", "MH", "0", "3", "0", "Bottom") >>] }

RunFaultPlans ==
    { NoFault, [ref |-> "SWA1", op |-> "SetPosition", text |-> "boom"] }

InitRun ==
    /\ document \in RunDocuments
    /\ nodes = None
    /\ extracted = None
    /\ validated = None
    /\ dialog \in [board_open : BOOLEAN, result : { ID_OK, ID_CANCEL },
                    files : { { LayoutFile } }, controls : ControlsPool]
    /\ run_pc = "start"
    /\ saved = None
    /\ checked = None
    /\ settings = None
    /\ keys = << >>
    /\ switch_config = NoConfig
    /\ diode_config = NoConfig
    /\ additional_configs = << >>
    /\ step_x_mm = DefaultStepMm
    /\ step_y_mm = DefaultStepMm
    /\ ref_unit_px = DefaultRefUnitPx
    /\ offset_x_mm = DefaultOffsetMm
    /\ offset_y_mm = DefaultOffsetMm
    /\ plan \in RunFaultPlans
    /\ board \in Boards
    /\ pc = "idle"
    /\ run = 1
    /\ key_i = 0
    /\ slot = 0
    /\ x_mm = 0
    /\ y_mm = 0
    /\ lists = EmptyLists
    /\ summary = NoSummary
    /\ first = NoSummary
    /\ log = << >>

\* board = pcbnew.GetBoard(); without a board the run ends.  Otherwise the
\* dialog is shown and, when it closes, its settings are saved; a dialog
\* closed by anything but OK ends the run.
RunOpen ==
    /\ run_pc = "start"
    /\ IF ~dialog.board_open
       THEN /\ run_pc' = "done"
            /\ saved' = saved
       ELSE /\ saved' = get_serializable_settings(dialog.controls)
            /\ run_pc' = IF dialog.result = ID_OK THEN "validate" ELSE "done"
    /\ UNCHANGED << place_args, plan, extractor, dialog, checked, settings, placement >>

\* is_valid, error_msg = dialog.validate(); settings = dialog.get_settings()
RunValidate ==
    /\ run_pc = "validate"
    /\ checked' = validate(dialog.controls, dialog.files)
    /\ IF ~checked'[1]
       THEN /\ run_pc' = "done"
            /\ settings' = settings
       ELSE /\ settings' = get_settings(dialog.controls)
            /\ run_pc' = IF settings'.raised THEN "raised" ELSE "validate_json"
    /\ UNCHANGED << place_args, plan, extractor, dialog, saved, placement >>

\* json_valid, json_msg = validate_json_structure(settings['json_file'])
RunValidateJson ==
    /\ run_pc = "validate_json"
    /\ validated' = validate_json_file(document)
    /\ run_pc' = IF validated'.raised THEN "raised"
                 ELSE IF ~validated'.value.is_valid THEN "done"
                 ELSE "parse"
    /\ UNCHANGED << place_args, plan, document, nodes, extracted, dialog, saved,
                    checked, settings, placement >>

\* keys = parse_kdt_json(settings['json_file']); any exception ends the run.
RunParse ==
    /\ run_pc = "parse"
    /\ extracted' = parse_kdt_json(document)
    /\ run_pc' = IF extracted'.raised THEN "done" ELSE "place"
    /\ UNCHANGED << place_args, plan, document, nodes, validated, dialog, saved,
                    checked, settings, placement >>

\* placer = FootprintPlacer(board); summary = placer.place_keys(keys=keys,
\* switch_config=..., diode_config=..., additional_configs=..., step_x_mm=...,
\* step_y_mm=..., ref_unit_px=...): the call, with the parameters not passed
\* at their defaults.
RunPlace ==
    /\ run_pc = "place"
    /\ run_pc' = "placing"
    /\ keys' = [i \in 1..Len(extracted.value) |-> PlacerKey(extracted.value[i])]
    /\ switch_config' = settings.value.switch_config
    /\ diode_config' = IF settings.value.diode_config.enabled
                       THEN settings.value.diode_config ELSE NoConfig
    /\ additional_configs' = settings.value.additional_configs
    /\ step_x_mm' = settings.value.step_x_mm
    /\ step_y_mm' = settings.value.step_y_mm
    /\ ref_unit_px' = settings.value.ref_unit_px
    /\ offset_x_mm' = DefaultOffsetMm
    /\ offset_y_mm' = DefaultOffsetMm
    /\ pc' = "ready"
    /\ UNCHANGED << plan, extractor, dialog, saved, checked, settings, board, run,
                    key_i, slot, x_mm, y_mm, lists, summary, first, log >>

\* place_keys has returned (pcbnew.Refresh(), the summary box,
\* dialog.Destroy()) or has raised.
RunFinish ==
    /\ run_pc = "placing"
    /\ pc \in { "returned", "raised" }
    /\ run_pc' = IF pc = "returned" THEN "done" ELSE "raised"
    /\ UNCHANGED << place_args, plan, extractor, dialog, saved, checked, settings,
                    placement >>

NextRun ==
    \/ RunOpen
    \/ RunValidate
    \/ RunValidateJson
    \/ RunParse
    \/ RunPlace
    \/ PlaceKeysBegin
    \/ ComputeBase
    \/ PlaceSwitch
    \/ PlaceDiode
    \/ PlaceAdditional
    \/ PlaceKeysReturn
    \/ RunFinish

SpecRun == InitRun /\ [][NextRun]_vars

(***************************************************************************)
(* Vocabulary of the properties.                                           *)
(***************************************************************************)
Entries == { log[i] : i \in 1..Len(log) }
KeyOf(e) == keys[e.key_i]
Called(e, op) == \E i \in 1..Len(e.facts.calls) : e.facts.calls[i] = op
ListNames == { "placed", "missing", "errors" }

\* The result of attempt e was appended to list name and to no other list.
WentTo(e, name) ==
    /\ e.lists_after[name] = Append(e.lists_before[name], e.result)
    /\ \A other \in ListNames \ { name } : e.lists_after[other] = e.lists_before[other]

\* The loop position that follows rule slot s of key k.
PositionAfter(k, s) ==
    IF s < 2 + Len(additional_configs) THEN << k, s + 1 >> ELSE << k + 1, 0 >>

\* The run went on after attempt e.
WentOn(e) == e.pc = "loop" /\ e.next = PositionAfter(e.key_i, e.slot)

\* The image of (dx, dy) under a rotation by -rot, rot a multiple of 90.
QuarterTurn(dx, dy, rot) ==
    CASE rot % 360 = 0 -> << dx, dy >>
      [] rot % 360 = 90 -> << dy, -dx >>
      [] rot % 360 = 180 -> << -dx, -dy >>
      [] rot % 360 = 270 -> << -dy, dx >>

\* (center / reference_unit_size) * scale + layout_offset, in 1/MmDen mm.
BaseOf(k) ==
    << (k.center_x * step_x_mm) \div ref_unit_px + offset_x_mm,
       (k.center_y * step_y_mm) \div ref_unit_px + offset_y_mm >>

\* The position, in nm, of key k's base displaced by (dx, dy) rotated.
PositionFor(k, dx, dy) ==
    << (BaseOf(k)[1] + QuarterTurn(dx, dy, k.rotation)[1]) * (NmPerMm \div MmDen),
       (BaseOf(k)[2] + QuarterTurn(dx, dy, k.rotation)[2]) * (NmPerMm \div MmDen) >>

(***************************************************************************)
(* C1.  place_keys is total: no failure escapes the call, whatever the     *)
(* keys, rules, scale, reference unit size, layout offset and resolver.    *)
(* Refuted: a reference unit size of 0 raises ZeroDivisionError outside    *)
(* every try, and so does a resolver whose lookup raises.                  *)
(***************************************************************************)
C1_NoFailureEscapes == pc # "raised"

(***************************************************************************)
(* C2.  A failure while mutating a resolved target is recorded in the      *)
(* error list and in no other list, its message carries the failure text,  *)
(* and the run goes on, for every failure text and reference.              *)
(* Refuted: a failure text holding "not found" lands in the missing list.  *)
(***************************************************************************)
C2_MutationFailureIsError ==
    \A e \in Entries :
        (e.facts.found /\ ~e.result.success) =>
            /\ WentTo(e, "errors")
            /\ Contains(e.result.message, plan.text)
            /\ WentOn(e)

(***************************************************************************)
(* C3.  For every enabled rule, the switch rule included, and every key    *)
(* whose target resolves, the position set is the key's base position plus *)
(* the rule's own offset rotated by the negative key rotation.             *)
(* Refuted for the switch rule, whose offset fields are not read.          *)
(***************************************************************************)
C3_PositionFromOwnOffset ==
    \A e \in Entries :
        e.facts.found =>
            /\ e.facts.pos = PositionFor(KeyOf(e), e.config.x_offset_mm, e.config.y_offset_mm)
            /\ Called(e, "SetPosition") => e.board_after[e.facts.reference].pos = e.facts.pos

\* C3 as amended: the diode rule and the additional rules are placed at the
\* base position plus their own rotated offset, the switch rule at the base
\* position itself, whatever its offset fields hold.
C3_PositionAmended ==
    \A e \in Entries :
        e.facts.found =>
            /\ e.facts.pos =
                   IF e.slot = 1 THEN PositionFor(KeyOf(e), 0, 0)
                   ELSE PositionFor(KeyOf(e), e.config.x_offset_mm, e.config.y_offset_mm)
            /\ Called(e, "SetPosition") => e.board_after[e.facts.reference].pos = e.facts.pos

\* A switch with a non-zero offset and a rotated key's diode were both placed.
C3_Witness ==
    /\ \E e \in Entries :
          e.slot = 1 /\ e.config.x_offset_mm # 0 /\ Called(e, "SetPosition")
    /\ \E e \in Entries :
          e.slot > 1 /\ KeyOf(e).rotation = 90 /\ e.config.y_offset_mm # 0
              /\ Called(e, "SetPosition")

\* The rule place_keys applies at slot s, and whether it is applied.
RuleAt(s) ==
    IF s = 1 THEN switch_config
    ELSE IF s = 2 THEN diode_config
    ELSE additional_configs[s - 2]

Slots == 1..(2 + Len(additional_configs))
EnabledSlots == { s \in Slots : RuleAt(s) # NoConfig /\ RuleAt(s).enabled }

\* The offsets attempt e passed to the rotation.
OffsetsOf(e) ==
    IF e.slot = 1 THEN << 0, 0 >> ELSE << e.config.x_offset_mm, e.config.y_offset_mm >>

\* The footprint that attempt e's reference resolved to, or NoTarget.
TargetBefore(e) ==
    IF e.facts.reference \in DOMAIN e.board_before
    THEN e.board_before[e.facts.reference] ELSE NoTarget
TargetAfter(e) == e.board_after[e.facts.reference]

(***************************************************************************)
(* C4.  The offset is rotated by the negative of the key rotation: at      *)
(* rotation 0 the rotated offset is the raw offset, at rotation 90 the     *)
(* offset (0, 5) becomes (5, 0), and at every multiple of 90 degrees it is *)
(* the quarter-turn image of the offset under the angle -rotation.         *)
(***************************************************************************)
C4_QuarterTurnOffsets ==
    \A e \in Entries :
        TargetBefore(e) # NoTarget =>
            LET dx == OffsetsOf(e)[1]
                dy == OffsetsOf(e)[2]
                rot == KeyOf(e).rotation
            IN  /\ e.facts.rotated = QuarterTurn(dx, dy, rot)
                /\ rot = 0 => e.facts.rotated = << dx, dy >>
                /\ (rot = 90 /\ dx = 0 /\ dy = 5000) => e.facts.rotated = << 5000, 0 >>

\* The fixture of the spec: rotation 90, offset (0, 5) mm, rotated to (5, 0).
C4_Witness ==
    \E e \in Entries :
        /\ KeyOf(e).rotation = 90
        /\ OffsetsOf(e) = << 0, 5000 >>
        /\ e.facts.rotated = << 5000, 0 >>
        /\ Called(e, "SetPosition")

(***************************************************************************)
(* C5.  For every placed outcome the orientation set on the target (the    *)
(* angle SetOrientation is called with, which the target then holds) is    *)
(* the rule's orientation_deg minus the key's rotation.                    *)
(***************************************************************************)
C5_OrientationSet ==
    \A e \in Entries :
        e.result.success =>
            /\ Called(e, "SetOrientation")
            /\ e.facts.total_rotation = e.config.orientation_deg - KeyOf(e).rotation
            /\ e.facts.oriented.orient
                   = Normalize180(e.config.orientation_deg - KeyOf(e).rotation)
            /\ ~e.facts.flipped => TargetAfter(e).orient = e.facts.oriented.orient

\* A rotated key's component was placed with a non-zero orientation.
C5_Witness ==
    \E e \in Entries :
        /\ e.result.success
        /\ KeyOf(e).rotation # 0
        /\ e.facts.total_rotation # 0
        /\ e.facts.total_rotation # e.config.orientation_deg

(***************************************************************************)
(* C6.  After every placed outcome the target is on the back layer when    *)
(* the rule's side is Bottom and on the front layer when it is Top; it was *)
(* flipped exactly when its side before the attempt differed from the      *)
(* rule's, and its position is the final position just set.                *)
(***************************************************************************)
WantedLayer(config) == IF config.pcb_side = "Bottom" THEN B_Cu ELSE F_Cu

C6_SideAfterPlacement ==
    \A e \in Entries :
        (e.result.success /\ e.config.pcb_side \in { "Top", "Bottom" }) =>
            /\ TargetAfter(e).layer = WantedLayer(e.config)
            /\ e.facts.flipped <=> TargetBefore(e).layer # WantedLayer(e.config)
            /\ e.facts.flipped <=> Called(e, "Flip")
            /\ TargetAfter(e).pos = e.facts.pos

\* One placed target was flipped to the back away from the origin, another
\* was already on its side.
C6_Witness ==
    /\ \E e \in Entries :
          /\ e.result.success /\ e.facts.flipped /\ e.config.pcb_side = "Bottom"
          /\ e.facts.pos[2] # 0
    /\ \E e \in Entries : e.result.success /\ e.facts.flipped /\ e.config.pcb_side = "Top"
    /\ \E e \in Entries : e.result.success /\ ~e.facts.flipped

(***************************************************************************)
(* C7.  When the reference resolves to no target the outcome has           *)
(* succeeded = false and the message "Footprint not found: <reference>",   *)
(* it is put in the missing list, no target is mutated, and the run goes   *)
(* on with the next rule and the following keys.                           *)
(***************************************************************************)
C7_MissingTarget ==
    \A e \in Entries :
        TargetBefore(e) = NoTarget =>
            /\ ~e.result.success
            /\ e.result.reference = e.facts.reference
            /\ e.result.message = "Footprint not found: " \o e.facts.reference
            /\ WentTo(e, "missing")
            /\ e.board_after = e.board_before
            /\ WentOn(e)

\* A missing target was followed by a placement for a later key.
C7_Witness ==
    \E i \in 1..Len(log) : \E j \in 1..Len(log) :
        /\ i < j
        /\ TargetBefore(log[i]) = NoTarget
        /\ log[j].key_i > log[i].key_i
        /\ log[j].result.success

(***************************************************************************)
(* C8.  Every (key, enabled rule) attempt produces exactly one outcome, in *)
(* exactly one of the three lists; a rule that is not enabled, or an       *)
(* absent diode rule, produces none; in every returned summary the three   *)
(* lists hold (number of keys) x (number of enabled rules) outcomes and    *)
(* total_keys is the number of keys.                                       *)
(***************************************************************************)
C8_OneOutcomePerAttempt ==
    /\ \A e \in Entries :
          /\ Cardinality({ name \in ListNames : WentTo(e, name) }) = 1
          /\ e.slot \in EnabledSlots
          /\ e.config = RuleAt(e.slot)
    /\ \A i, j \in 1..Len(log) :
          (log[i].key_i = log[j].key_i /\ log[i].slot = log[j].slot) => i = j
    /\ Len(lists.placed) + Len(lists.missing) + Len(lists.errors) = Len(log)
    /\ pc = "returned" =>
          /\ \A k \in 1..Len(keys) : \A s \in EnabledSlots :
                \E e \in Entries : e.key_i = k /\ e.slot = s
          /\ Len(summary.placed) + Len(summary.missing) + Len(summary.errors)
                 = Len(keys) * Cardinality(EnabledSlots)
          /\ summary.total_keys = Len(keys)

\* A summary of two keys, with a rule switched off, whose attempts fell in
\* more than one list.
C8_Witness ==
    /\ pc = "returned"
    /\ Len(keys) = 2
    /\ EnabledSlots # Slots
    /\ Cardinality(EnabledSlots) >= 2
    /\ Len(summary.placed) >= 1
    /\ Len(summary.missing) >= 1

(***************************************************************************)
(* C9.  Attempts are made, and targets mutated, key by key in input order  *)
(* and, within a key, switch rule, diode rule, additional rules in list    *)
(* order; each of the three lists holds its outcomes in the order in which *)
(* they were produced.                                                     *)
(***************************************************************************)
ResultsIn(name) ==
    LET chosen == SelectSeq(log, LAMBDA e : WentTo(e, name))
    IN  [i \in 1..Len(chosen) |-> chosen[i].result]

C10_Idempotent ==
    (pc = "returned" /\ run = 2) =>
        /\ summary = first.summary
        /\ board = first.board

(***************************************************************************)
(* Vocabulary of the properties of the extractor.                          *)
(***************************************************************************)
IsObject(v) == v.t = "dict"
IsArray(v) == v.t = "list"

\* The document is an object whose first-level field f holds an array.
ArrayUnder(doc, f) == IsObject(doc) /\ Has(doc, f) /\ IsArray(Get(doc, f, JNull))

\* The document is an object whose first-level field f holds an object with
\* a nodes array field.
NestedUnder(doc, f) ==
    IsObject(doc) /\ Has(doc, f) /\ ArrayUnder(Get(doc, f, JNull), "nodes")

NestedArray(doc, f) == Get(Get(doc, f, JNull), "nodes", JNull).list
FlatArray(doc) == Get(doc, "nodes", JNull).list

FirstLevelFields(doc) ==
    IF IsObject(doc) THEN { Keys(doc)[i] : i \in 1..Len(Keys(doc)) } ELSE { }

\* The node array of the document is found by one of the three shapes.
ArrayFound(doc) == IsArray(doc) \/ NestedUnder(doc, "layout") \/ ArrayUnder(doc, "nodes")

\* The node array, by precedence of the shapes.
NodeArrayOf(doc) ==
    IF IsArray(doc) THEN doc.list
    ELSE IF NestedUnder(doc, "layout") THEN NestedArray(doc, "layout")
    ELSE FlatArray(doc)

\* The node has a position field, a data field and a label inside data.
HasLabel(node) ==
    /\ IsObject(node) /\ Has(node, "position") /\ Has(node, "data")
    /\ IsObject(Get(node, "data", JNull)) /\ Has(Get(node, "data", JNull), "label")

LabelOf(node) == Get(Get(node, "data", JNull), "label", JNull)

\* Extraction has ended: it returned a list or it failed.
Extracted == extracted # None
Returned == Extracted /\ ~extracted.raised
Failed == Extracted /\ extracted.raised

(***************************************************************************)
(* C11.  Extraction never fails because of an individual node: whenever    *)
(* the node array of the document is found, parse_kdt_data returns a list, *)
(* whatever the array holds (nodes that are no objects, a position or data *)
(* that is null or no object, a field that is no number).                  *)
(* Refuted: parse_node raises TypeError, AttributeError or ValueError on   *)
(* such nodes and parse_kdt_data does not catch it.                        *)
(***************************************************************************)
C11_NoNodeFailure == (Extracted /\ ArrayFound(document)) => ~extracted.raised

(***************************************************************************)
(* C12.  The list returned holds one KeyRecord for exactly the nodes that  *)
(* have a position field, a data field and a label inside data, in the     *)
(* order of the node array; every other node is omitted without error.     *)
(* Refuted: a node without label whose position is null makes extraction   *)
(* fail (the failure of C11), and a node whose label is null is omitted.   *)
(***************************************************************************)
C12_ExactlyLabelledNodes ==
    (Extracted /\ ArrayFound(document)) =>
        LET labelled == SelectSeq(NodeArrayOf(document), HasLabel)
        IN  /\ ~extracted.raised
            /\ Len(extracted.value) = Len(labelled)
            /\ \A i \in 1..Len(labelled) :
                   LabelOf(labelled[i]).t = "str"
                       => extracted.value[i].label = LabelOf(labelled[i]).str

(***************************************************************************)
(* C13.  Every KeyRecord produced by extraction has a non-empty label.     *)
(* Refuted: the label "" is not None, so the node is converted.            *)
(***************************************************************************)
C13_LabelNonEmpty ==
    Returned => \A i \in 1..Len(extracted.value) : extracted.value[i].label # ""

(***************************************************************************)
(* C14.  The node array is located by trying, in this order, the document  *)
(* itself when it is an array, the array under the nested object field     *)
(* (layout.nodes), the array under the first-level nodes field; the first  *)
(* match is returned as it is, and nodes under another shape of the same   *)
(* document do not contribute.                                             *)
(***************************************************************************)
C14_ShapePrecedence ==
    nodes # None =>
        IF IsArray(document) THEN nodes = Return(document.list)
        ELSE IF NestedUnder(document, "layout")
        THEN nodes = Return(NestedArray(document, "layout"))
        ELSE IF ArrayUnder(document, "nodes") THEN nodes = Return(FlatArray(document))
        ELSE nodes.raised

\* A document with a nested and a flat array, which differ: the nested one
\* was returned.
C14_Witness ==
    /\ nodes # None
    /\ NestedUnder(document, "layout")
    /\ ArrayUnder(document, "nodes")
    /\ Len(NestedArray(document, "layout")) > 0
    /\ NestedArray(document, "layout") # FlatArray(document)
    /\ nodes = Return(NestedArray(document, "layout"))

(***************************************************************************)
(* C15.  Every document of an accepted shape is accepted: a bare array, an *)
(* object with a nodes array field, an object with a first-level field,    *)
(* whatever its name, holding an object with a nodes array field;          *)
(* find_nodes returns the nodes array of such a shape.                     *)
(* Refuted: the nested shape is accepted under the field layout only.      *)
(***************************************************************************)
C15_AcceptedShapes ==
    (/\ nodes # None
     /\ \/ IsArray(document)
        \/ ArrayUnder(document, "nodes")
        \/ \E f \in FirstLevelFields(document) : NestedUnder(document, f))
    => /\ ~nodes.raised
       /\ \/ IsArray(document) /\ nodes.value = document.list
          \/ ArrayUnder(document, "nodes") /\ nodes.value = FlatArray(document)
          \/ \E f \in FirstLevelFields(document) :
                 NestedUnder(document, f) /\ nodes.value = NestedArray(document, f)

\* C15 as amended: the nested shape is the one under the first-level field
\* named layout.
C15_AcceptedShapesAmended ==
    (/\ nodes # None
     /\ \/ IsArray(document)
        \/ ArrayUnder(document, "nodes")
        \/ NestedUnder(document, "layout"))
    => /\ ~nodes.raised
       /\ \/ IsArray(document) /\ nodes.value = document.list
          \/ ArrayUnder(document, "nodes") /\ nodes.value = FlatArray(document)
          \/ NestedUnder(document, "layout")
                 /\ nodes.value = NestedArray(document, "layout")

\* An object with other fields and a nodes array of two nodes was accepted.
C15_Witness ==
    /\ nodes # None
    /\ ArrayUnder(document, "nodes")
    /\ ~Has(document, "layout")
    /\ Has(document, "edges")
    /\ Len(FlatArray(document)) = 2
    /\ nodes = Return(FlatArray(document))

(***************************************************************************)
(* C16.  Extraction fails with a structure error (the ValueError of        *)
(* find_nodes) exactly when the document is neither an object nor an       *)
(* array, or is an object in which no shape yields an array; for an object *)
(* the error carries the first-level field names of the document; no       *)
(* failing extraction returns a list.                                      *)
(***************************************************************************)
StartsWith(s, prefix) == Len(s) >= Len(prefix) /\ SubSeq(s, 1, Len(prefix)) = prefix

IsStructureError(e) ==
    /\ e.raised
    /\ e.type = "ValueError"
    /\ \/ StartsWith(e.message, "Could not find nodes array in JSON.")
       \/ StartsWith(e.message, "Expected JSON object or array")

NoShape(doc) ==
    \/ ~IsObject(doc) /\ ~IsArray(doc)
    \/ IsObject(doc) /\ ~ArrayFound(doc)

NumberOf(v) == IF v.t = "int" THEN v.int ELSE NatOf(v.str)

\* The nodes extraction converts when no node fails.
Converted(node) == HasLabel(node) /\ LabelOf(node).t # "NoneType"

C17_CenterFromAnchorAndSize ==
    Returned =>
        LET converted == SelectSeq(NodeArrayOf(document), Converted)
        IN  /\ Len(extracted.value) = Len(converted)
            /\ \A i \in 1..Len(converted) :
                   LET node == converted[i]
                       position == Get(node, "position", JNull)
                       x == NumberOf(Get(position, "x", JInt(0)))
                       y == NumberOf(Get(position, "y", JInt(0)))
                       width == NumberOf(Get(node, "width", JInt(60)))
                       height == NumberOf(Get(node, "height", JInt(60)))
                   IN  /\ 2 * extracted.value[i].center_x = FloatDen * (2 * x + width)
                       /\ 2 * extracted.value[i].center_y = FloatDen * (2 * y + height)

\* Two nodes were converted: one with its own anchor and size, centre
\* (50, 40), one with a width inside position and a height inside data,
\* centre (42, 30).
C17_Witness ==
    /\ Returned
    /\ Len(extracted.value) = 2
    /\ extracted.value[1].center_x = 50 * FloatDen
    /\ extracted.value[1].center_y = 40 * FloatDen
    /\ extracted.value[2].center_x = 42 * FloatDen
    /\ extracted.value[2].center_y = 30 * FloatDen

(***************************************************************************)
(* C18.  validate_json_structure never fails because of a malformed node:  *)
(* for every content of the node array it returns a (valid, message) pair, *)
(* and when no valid key exists the message lists at most the first 3      *)
(* failing nodes, each with its field names and its data's field names.    *)
(* Refuted: a node that is no object, or whose data is null or no object,  *)
(* raises TypeError or AttributeError out of the function.                 *)
(***************************************************************************)
C18_ValidationTolerates ==
    validated # None =>
        /\ ~validated.raised
        /\ validated.value.is_valid \in BOOLEAN
        /\ (ArrayFound(document) /\ ~validated.value.is_valid) =>
               /\ Len(validated.value.issues) <= ShownIssues
               /\ \A i \in 1..Len(validated.value.issues) :
                      /\ Contains(validated.value.message, validated.value.issues[i])
                      /\ Contains(validated.value.issues[i], "keys=")
                      /\ Contains(validated.value.issues[i], "data_keys=")

(***************************************************************************)
(* Vocabulary of the properties of a plugin run.                           *)
(***************************************************************************)
\* The base position of key k under the settings of the dialog, in 1/MmDen mm.
SettingsBaseOf(k) ==
    << (k.center_x * settings.value.step_x_mm) \div settings.value.ref_unit_px
           + settings.value.offset_x_mm,
       (k.center_y * settings.value.step_y_mm) \div settings.value.ref_unit_px
           + settings.value.offset_y_mm >>

\* Every pattern that is used holds the marker.
PatternsOk(controls) ==
    /\ Contains(controls.switch_pattern, "{}")
    /\ controls.diode_enabled => Contains(controls.diode_pattern, "{}")
    /\ \A i \in 1..Len(controls.additional_components) :
           Contains(controls.additional_components[i].pattern, "{}")

DialogPassed == checked # None /\ checked[1]
JsonPassed == validated # None /\ ~validated.raised /\ validated.value.is_valid

\* Everything the run asks for before it places is there.
MayMutate ==
    /\ dialog.board_open
    /\ dialog.result = ID_OK
    /\ DialogPassed
    /\ PatternsOk(dialog.controls)
    /\ JsonPassed
    /\ Returned

(***************************************************************************)
(* C19.  In a plugin run the layout offsets of the settings (offset_x_mm,  *)
(* offset_y_mm) are the layout offsets of every key's base position: each  *)
(* position set includes them.                                             *)
(* Refuted: Run does not pass them to place_keys, which uses 0.            *)
(***************************************************************************)
C19_SettingsOffsetsUsed ==
    \A e \in Entries :
        /\ e.base = SettingsBaseOf(KeyOf(e))
        /\ e.facts.found =>
               e.facts.pos =
                   << mm_to_nm(SettingsBaseOf(KeyOf(e))[1] + e.facts.rotated[1]),
                      mm_to_nm(SettingsBaseOf(KeyOf(e))[2] + e.facts.rotated[2]) >>

(***************************************************************************)
(* C20.  In a plugin run no target is mutated unless, in this order, a     *)
(* board is open, the dialog was confirmed with OK, dialog validation      *)
(* passed (every pattern used holds "{}"), JSON validation passed and      *)
(* parsing raised no error; on every other path the board stays as it      *)
(* was; the settings are saved whenever the dialog closes.                 *)
(***************************************************************************)
C20_ChecksInOrder ==
    /\ run_pc # "start" => (saved = IF dialog.board_open THEN dialog.controls ELSE None)
    /\ checked # None => dialog.board_open /\ dialog.result = ID_OK
    /\ settings # None => DialogPassed /\ PatternsOk(dialog.controls)
    /\ validated # None => settings # None /\ ~settings.raised
    /\ Extracted => JsonPassed
    /\ pc # "idle" => MayMutate

C20_MutationGuarded ==
    /\ []C20_ChecksInOrder
    /\ [][board' # board => MayMutate]_vars
    /\ [][(run_pc \in { "start", "validate", "validate_json", "parse" }
              /\ run_pc' \in { "done", "raised" }) => board' = board /\ log' = << >>]_vars

\* A run that passed every check, saved the settings and changed a target.
C20_Witness ==
    /\ run_pc = "done"
    /\ MayMutate
    /\ saved = dialog.controls
    /\ \E e \in Entries : e.board_after # e.board_before

(***************************************************************************)
(* C21.  Validation and extraction agree on what a valid key is: for every *)
(* document, validate_json_structure reports it valid with N keys if and   *)
(* only if extraction of the same document returns N >= 1 KeyRecords,      *)
(* documents with a null data.label and with an empty node array included. *)
(* Refuted: validation tests 'label' in data, extraction tests             *)
(* label is None, so a node whose label is null counts as a key for        *)
(* validation and is dropped by extraction.                                *)
(***************************************************************************)
ReportedValid == validated # None /\ ~validated.raised /\ validated.value.is_valid

C21_ValidationAgreesWithExtraction ==
    (validated # None /\ Extracted) =>
        /\ ReportedValid <=> (Returned /\ Len(extracted.value) >= 1)
        /\ ReportedValid =>
               /\ validated.value.valid_keys = Len(extracted.value)
               /\ validated.value.message =
                      "Valid JSON with " \o ToString(Len(extracted.value)) \o " keys"

(***************************************************************************)
(* C22.  Within one (key, rule) attempt the target is mutated in the order *)
(* set-position, set-orientation, side flip, and nothing is rolled back:   *)
(* when set-orientation fails the attempt is recorded as not succeeded and *)
(* the target keeps the newly set position; when only the flip fails it    *)
(* keeps the newly set position and the newly set orientation; every       *)
(* target other than the one the reference resolves to is left as it was.  *)
(***************************************************************************)
MutationOrder == << "SetPosition", "SetOrientation", "Flip" >>

IsPrefix(s, t) == Len(s) <= Len(t) /\ SubSeq(t, 1, Len(s)) = s

\* The host call op fails in attempt e.
FailsIn(e, op) == e.facts.found /\ plan.ref = e.facts.reference /\ plan.op = op

\* Attempt e is recorded as not succeeded.
NotSucceeded(e) ==
    /\ ~e.result.success
    /\ e.lists_after.placed = e.lists_before.placed

C22_NoRollback ==
    \A e \in Entries :
        /\ IsPrefix(e.facts.calls, MutationOrder)
        /\ DOMAIN e.board_after = DOMAIN e.board_before
        /\ \A r \in DOMAIN e.board_before :
               r # e.facts.reference => e.board_after[r] = e.board_before[r]
        /\ ~e.facts.found => e.board_after = e.board_before
        /\ FailsIn(e, "SetPosition") =>
               /\ NotSucceeded(e)
               /\ e.facts.calls = << >>
               /\ TargetAfter(e) = TargetBefore(e)
        /\ FailsIn(e, "SetOrientation") =>
               /\ NotSucceeded(e)
               /\ e.facts.calls = << "SetPosition" >>
               /\ TargetAfter(e) = [TargetBefore(e) EXCEPT !.pos = e.facts.pos]
        /\ (FailsIn(e, "Flip") /\ TargetBefore(e).layer # WantedLayer(e.config)) =>
               /\ NotSucceeded(e)
               /\ e.facts.calls = << "SetPosition", "SetOrientation" >>
               /\ TargetAfter(e) =
                      [TargetBefore(e) EXCEPT
                          !.pos = e.facts.pos,
                          !.orient = Normalize180(e.config.orientation_deg
                                                      - KeyOf(e).rotation)]
        /\ (e.facts.found /\ e.result.success) =>
               /\ Called(e, "SetPosition")
               /\ Called(e, "SetOrientation")

\* The flip of a switch failed: the switch stays on its side at the new
\* position with the new orientation, and the attempt is in the error list.
C22_Witness ==
    \E e \in Entries :
        /\ FailsIn(e, "Flip")
        /\ ~e.result.success
        /\ e.lists_after.errors = Append(e.lists_before.errors, e.result)
        /\ TargetAfter(e).layer = TargetBefore(e).layer
        /\ TargetAfter(e).pos = e.facts.pos
        /\ TargetAfter(e).pos # TargetBefore(e).pos
        /\ TargetAfter(e).orient # TargetBefore(e).orient
        /\ TargetAfter(e).orient = 90

\* The orientation of a diode could not be set: the diode is at the new
\* position with the orientation it had.
C22_OrientationFailed ==
    \E e \in Entries :
        /\ FailsIn(e, "SetOrientation")
        /\ ~e.result.success
        /\ TargetAfter(e).pos = e.facts.pos
        /\ TargetAfter(e).pos # TargetBefore(e).pos
        /\ TargetAfter(e).orient = TargetBefore(e).orient
        /\ TargetBefore(e).orient # Normalize180(e.facts.total_rotation)

====
